---- MODULE Spec2Model ----
(***************************************************************************)
(* A model of pretrain_t5.py (Megatron-LM): the T5 model factory, the      *)
(* batch decoder and forward step, the embedding-rank topology functions,  *)
(* and the inter-stage tensor contract the module docstring states for     *)
(* pipeline-parallel T5.                                                   *)
(*                                                                         *)
(* Each component has its own specification over the shared variables:     *)
(*   SpecProvider  model_provider                                          *)
(*   SpecRanks     t5_embedding_ranks, t5_position_embedding_ranks         *)
(*   SpecBatch     get_batch, forward_step, the loss closure               *)
(*   SpecPipeline  the per-stage send/receive contract, forward+backward   *)
(*   SpecGrad      the encoder_hidden_state gradient accumulator           *)
(* The variables a specification does not use stay at their idle value.    *)
(***************************************************************************)
EXTENDS Integers, Sequences, FiniteSets, TLC

VARIABLES
    args,        \* get_args(): the parsed arguments model_provider reads
    provided,    \* outcome of model_provider: a model, or a raised error
    pp_ranks,    \* the pipeline group handed to the rank functions
    emb_ranks,   \* result of t5_embedding_ranks
    pos_ranks,   \* result of t5_position_embedding_ranks
    data,        \* the batch record next(data_iterator) yields on the source rank
    mask_call,   \* the arguments get_batch handed to config_attention_mask
    step_out,    \* what forward_step returned: output tensor and loss closure
    loss_out,    \* outcome of calling the loss closure on the output tensor
    topo,        \* the pipeline: number of stages and the split rank
    nextmb,      \* the next microbatch the first stage reads from its iterator
    cur,         \* per stage: the microbatch whose forward is in progress
    inbox,       \* per stage: the input tensors of the forward in progress
    fwd_chan,    \* per stage k: tensors in flight from stage k to stage k+1
    bwd_chan,    \* per stage k: gradients in flight from stage k+1 to stage k
    stage_log,   \* per stage and microbatch: what was received, sent, saved
    order,       \* per stage: microbatches in the order received and sent
    partial,     \* per decoder stage: its partial encoder_hidden_state gradient
    reported,    \* per microbatch: the decoder stages in the order they reported
    grad_acc,    \* per microbatch: the gradient accumulated so far
    grad_back    \* per microbatch: the gradient sent back into the encoder range

providerVars == <<args, provided>>
ranksVars    == <<pp_ranks, emb_ranks, pos_ranks>>
batchVars    == <<data, mask_call, step_out, loss_out>>
pipeVars     == <<topo, nextmb, cur, inbox, fwd_chan, bwd_chan, stage_log, order>>
gradVars     == <<partial, reported, grad_acc, grad_back>>

vars == <<providerVars, ranksVars, batchVars, pipeVars, gradVars>>

\* A value that is absent (Python's None, a call not yet made) is the empty
\* sequence; a present value v is <<v>>.
None == <<>>
Some(v) == <<v>>
Get(o) == o[1]

----------------------------------------------------------------------------
(* Bounds of the model.                                                    *)

\* largest pipeline_model_parallel_size explored
MaxPP == 3
\* largest num_layers / encoder_num_layers explored
MaxLayers == 2
\* global ranks are 0..MaxRank
MaxRank == 4
\* longest pipeline group handed to the rank functions
MaxGroupLen == 3
\* encoder and decoder sequence lengths of a sample
EncLen == 2
DecLen == 3
\* most stages in a pipeline group
MaxStages == 4
\* microbatches fed through the pipeline
NumMicro == 2
\* most decoder stages reporting a partial gradient
MaxDecoders == 3

----------------------------------------------------------------------------
(* model_provider                                                          *)

BOOL == {TRUE, FALSE}

\* --transformer-impl admits exactly these two values
TransformerImpls == {"local", "transformer_engine"}

ArgsSpace ==
    [ use_legacy_models : BOOL,
      pipeline_model_parallel_size : 1..MaxPP,
      transformer_impl : TransformerImpls,
      num_layers : 1..MaxLayers,
      encoder_num_layers : 1..MaxLayers ]

\* the keyword arguments of model_provider
ProviderKwSpace ==
    [ pre_process : BOOL, post_process : BOOL,
      add_encoder : BOOL, add_decoder : BOOL ]

\* core_transformer_config_from_args: the fields model_provider reads back
core_transformer_config_from_args(a) ==
    [ num_layers |-> a.num_layers,
      pipeline_model_parallel_size |-> a.pipeline_model_parallel_size ]

\* megatron.legacy.model.T5Model(...): the constructor builds the model object
LegacyT5Model(config, kw) ==
    [ class |-> "legacy.T5Model",
      num_layers |-> config.num_layers,
      pipeline_model_parallel_size |-> config.pipeline_model_parallel_size,
      kw |-> kw ]

\* get_t5_{encoder,decoder}_with_{local,transformer_engine}_block_spec
block_spec(impl, tower, n) == [ impl |-> impl, tower |-> tower, layers |-> n ]

\* megatron.core.models.T5.T5Model(...)
CoreT5Model(config, encoder_config, en_block_spec, de_block_spec, kw) ==
    [ class |-> "core.T5Model",
      num_layers |-> config.num_layers,
      pipeline_model_parallel_size |-> config.pipeline_model_parallel_size,
      encoder_layers |-> en_block_spec.layers,
      decoder_layers |-> de_block_spec.layers,
      impl |-> en_block_spec.impl,
      kw |-> kw ]

\* a plausible slip: the test compares against the wrong threshold
PipelineRejectedOffByOne(a) == a.pipeline_model_parallel_size > 2

\* the pipeline-size test of the non-legacy branch
PipelineRejected(a) == a.pipeline_model_parallel_size > 1

\* the result of model_provider(**kw) under arguments a: the returned model,
\* or the exception raised
model_provider(a, kw) ==
    LET config == core_transformer_config_from_args(a) IN
    IF a.use_legacy_models
    THEN [ status |-> "returned", error |-> "",
           model |-> Some(LegacyT5Model(config, kw)) ]
    ELSE LET encoder_config == [config EXCEPT !.num_layers = a.encoder_num_layers] IN
         IF PipelineRejected(a)
         THEN [ status |-> "raised", error |-> "ValueError", model |-> None ]
         ELSE LET encoder_layers_per_pipeline ==
                      encoder_config.num_layers \div encoder_config.pipeline_model_parallel_size
                  decoder_layers_per_pipeline ==
                      config.num_layers \div config.pipeline_model_parallel_size
                  en_block_spec ==
                      block_spec(a.transformer_impl, "encoder", encoder_layers_per_pipeline)
                  de_block_spec ==
                      block_spec(a.transformer_impl, "decoder", decoder_layers_per_pipeline)
              IN [ status |-> "returned", error |-> "",
                   model |-> Some(CoreT5Model(config, encoder_config,
                                              en_block_spec, de_block_spec, kw)) ]

\* the training loop calls model_provider once
CallModelProvider ==
    /\ args # None
    /\ provided = None
    /\ \E kw \in ProviderKwSpace : provided' = Some(model_provider(Get(args), kw))
    /\ UNCHANGED <<args, ranksVars, batchVars, pipeVars, gradVars>>

----------------------------------------------------------------------------
(* t5_embedding_ranks, t5_position_embedding_ranks                         *)

Ranks == 0..MaxRank

Range(s) == { s[i] : i \in DOMAIN s }

\* non-empty sequences of globally unique ranks
PipelineGroups ==
    { g \in UNION { [1..n -> Ranks] : n \in 1..MaxGroupLen } :
        \A i, j \in DOMAIN g : i # j => g[i] # g[j] }

\* a plausible slip: the single-stage case is not special-cased
t5_embedding_ranks_nodedup(ranks) == <<ranks[1], ranks[Len(ranks)]>>

t5_embedding_ranks(ranks) ==
    LET first_rank == ranks[1]
        last_rank  == ranks[Len(ranks)]
    IN IF Len(ranks) = 1 THEN <<first_rank>> ELSE <<first_rank, last_rank>>

t5_position_embedding_ranks(ranks) == <<ranks[1]>>

CallEmbeddingRanks ==
    /\ pp_ranks # None
    /\ emb_ranks = None
    /\ emb_ranks' = Some(t5_embedding_ranks(pp_ranks))
    /\ UNCHANGED <<providerVars, pp_ranks, pos_ranks, batchVars, pipeVars, gradVars>>

CallPositionEmbeddingRanks ==
    /\ pp_ranks # None
    /\ pos_ranks = None
    /\ pos_ranks' = Some(t5_position_embedding_ranks(pp_ranks))
    /\ UNCHANGED <<providerVars, pp_ranks, emb_ranks, batchVars, pipeVars, gradVars>>

----------------------------------------------------------------------------
(* get_batch, forward_step and the loss closure.                           *)
(* One sample stands for every row of the batch: each field is a sequence  *)
(* over the positions of that sample.                                      *)

Sum(s) == LET RECURSIVE Upto(_)
              Upto(n) == IF n = 0 THEN 0 ELSE s[n] + Upto(n - 1)
          IN Upto(Len(s))

Abs(v) == IF v < 0 THEN 0 - v ELSE v

\* torch.int64 -> torch.float32: exact while the magnitude fits the 24-bit
\* significand, rounded to nearest-even above it
TwoPow24 == 2^24

RECURSIVE UlpFrom(_, _)
UlpFrom(a, u) == IF a \div u < TwoPow24 THEN u ELSE UlpFrom(a, 2 * u)

Float32(v) ==
    LET a == Abs(v)
        u == UlpFrom(a, 1)
        q == a \div u
        r == a % u
        up == 2 * r > u \/ (2 * r = u /\ q % 2 = 1)
        m == IF up THEN (q + 1) * u ELSE q * u
    IN IF a <= TwoPow24 THEN v ELSE IF v < 0 THEN 0 - m ELSE m

\* the raw indicator values the dataset writes (torch.int64)
IndicatorVals == {0, 1}
\* the loss weights the dataset writes
WeightVals == {0, 1}

\* token rows of length n: a constant row and a position-dependent row
TokenRows(n) == { [i \in 1..n |-> 7], [i \in 1..n |-> 100 + i] }

DataRecords ==
    { [ text_enc  |-> te, text_dec |-> td,
        labels    |-> [i \in 1..DecLen |-> td[i] + 1],
        loss_mask |-> lm, enc_mask |-> em, dec_mask |-> dm ] :
        te \in TokenRows(EncLen), td \in TokenRows(DecLen),
        lm \in [1..DecLen -> WeightVals],
        em \in [1..EncLen -> IndicatorVals],
        dm \in [1..DecLen -> IndicatorVals] }

keys == <<"text_enc", "text_dec", "labels", "loss_mask", "enc_mask", "dec_mask">>

\* tensor_parallel.broadcast_data(keys, data, datatype): every rank of the
\* tensor-parallel group, with or without an iterator of its own, ends with
\* the source rank's record, restricted to the keys
broadcast_data(ks, local, source) == [ k \in Range(ks) |-> source[k] ]

\* tensor < 0.5 on an integer tensor, element-wise
LessThanHalf(t) == [ i \in DOMAIN t |-> 2 * t[i] < 1 ]

\* a plausible slip: the comparison is turned around
GreaterThanHalf(t) == [ i \in DOMAIN t |-> 2 * t[i] > 1 ]

\* T5MaskedWordPieceDataset.config_attention_mask: the three attention masks
\* from the two boolean padding masks; TRUE is attendable. Off the local
\* backend the same values are laid out in the backend's shape.
config_attention_mask(tokens_enc, tokens_dec, enc_mask, dec_mask, use_local) ==
    LET layout == IF use_local THEN "local" ELSE "backend" IN
    [ enc_mask |->
        [ layout |-> layout,
          m |-> [ i \in DOMAIN enc_mask |-> [ j \in DOMAIN enc_mask |->
                    enc_mask[i] /\ enc_mask[j] ] ] ],
      dec_mask |->
        [ layout |-> layout,
          m |-> [ i \in DOMAIN dec_mask |-> [ j \in DOMAIN dec_mask |->
                    dec_mask[i] /\ dec_mask[j] /\ j <= i ] ] ],
      enc_dec_mask |->
        [ layout |-> layout,
          m |-> [ i \in DOMAIN dec_mask |-> [ j \in DOMAIN enc_mask |->
                    dec_mask[i] /\ enc_mask[j] ] ] ] ]

\* a plausible slip: the encoder padding mask is passed for both towers
MaskCallEncForDec(data_b, use_local) ==
    [ tokens_enc |-> data_b.text_enc,
      tokens_dec |-> data_b.text_dec,
      enc_mask   |-> LessThanHalf(data_b.enc_mask),
      dec_mask   |-> [ i \in DOMAIN data_b.dec_mask |->
                         LessThanHalf(data_b.enc_mask)[((i - 1) % EncLen) + 1] ],
      use_local  |-> use_local ]

\* a plausible slip: the padding masks are built with the comparison reversed
MaskCallReversed(data_b, use_local) ==
    [ tokens_enc |-> data_b.text_enc,
      tokens_dec |-> data_b.text_dec,
      enc_mask   |-> GreaterThanHalf(data_b.enc_mask),
      dec_mask   |-> GreaterThanHalf(data_b.dec_mask),
      use_local  |-> use_local ]

\* the arguments get_batch hands to config_attention_mask
MaskCall(data_b, use_local) ==
    [ tokens_enc |-> data_b.text_enc,
      tokens_dec |-> data_b.text_dec,
      enc_mask   |-> LessThanHalf(data_b.enc_mask),
      dec_mask   |-> LessThanHalf(data_b.dec_mask),
      use_local  |-> use_local ]

\* a plausible slip: the tuple is returned in the order of the keys, labels
\* before loss_mask, while forward_step unpacks loss_mask before labels
get_batch_key_order(data_b, use_local) ==
    LET loss_mask == [ i \in DOMAIN data_b.loss_mask |-> Float32(data_b.loss_mask[i]) ]
        masks     == config_attention_mask(data_b.text_enc, data_b.text_dec,
                                           LessThanHalf(data_b.enc_mask),
                                           LessThanHalf(data_b.dec_mask), use_local)
    IN << data_b.text_enc, data_b.text_dec, data_b.labels, loss_mask,
          masks.enc_mask, masks.dec_mask, masks.enc_dec_mask >>

\* get_batch returns the tuple
\*   tokens_enc, tokens_dec, loss_mask, labels, enc_mask, dec_mask, enc_dec_mask
get_batch(data_b, use_local) ==
    LET tokens_enc == data_b.text_enc
        tokens_dec == data_b.text_dec
        labels     == data_b.labels
        loss_mask  == [ i \in DOMAIN data_b.loss_mask |-> Float32(data_b.loss_mask[i]) ]
        c          == MaskCall(data_b, use_local)
        masks      == config_attention_mask(c.tokens_enc, c.tokens_dec,
                                            c.enc_mask, c.dec_mask, c.use_local)
    IN << tokens_enc, tokens_dec, loss_mask, labels,
          masks.enc_mask, masks.dec_mask, masks.enc_dec_mask >>

\* the per-position losses the model may return for lm_labels
OutputTensors == { [i \in 1..DecLen |-> 2], [i \in 1..DecLen |-> i] }

\* forward_step: the batch, the model call (its result is model_out), and
\* the pair (output_tensor, partial(loss_func, loss_mask))
forward_step(data_b, a, model_out) ==
    LET use_local == a.transformer_impl = "local"
        b         == get_batch(data_b, use_local)
        tokens_enc == b[1]
        tokens_dec == b[2]
        loss_mask  == b[3]
        lm_labels  == b[4]
    IN [ model_call    |-> [ tokens_enc |-> tokens_enc, tokens_dec |-> tokens_dec,
                             enc_mask |-> b[5], dec_mask |-> b[6],
                             enc_dec_mask |-> b[7], lm_labels |-> lm_labels ],
         output_tensor |-> model_out,
         bound_mask    |-> loss_mask ]

\* pretrain_gpt.loss_func(loss_mask, output_tensor): the mean of the losses
\* weighted by loss_mask, as the fraction num/den; a zero total weight is an
\* error, not a division
loss_func(loss_mask, output_tensor) ==
    LET total == Sum(loss_mask)
        num   == Sum([ i \in DOMAIN output_tensor |-> output_tensor[i] * loss_mask[i] ])
    IN IF total = 0
       THEN [ status |-> "raised", error |-> "DegenerateBatchError", num |-> 0, den |-> 0 ]
       ELSE [ status |-> "value", error |-> "", num |-> num, den |-> total ]

\* one microbatch: forward_step runs on a rank with or without an iterator
ForwardStep ==
    /\ data # None
    /\ step_out = None
    /\ \E has_iterator \in BOOL, model_out \in OutputTensors :
         LET local     == IF has_iterator THEN data ELSE None
             data_b    == broadcast_data(keys, local, Get(data))
             use_local == Get(args).transformer_impl = "local"
         IN /\ mask_call' = Some(MaskCall(data_b, use_local))
            /\ step_out' = Some(forward_step(data_b, Get(args), model_out))
    /\ UNCHANGED <<providerVars, ranksVars, data, loss_out, pipeVars, gradVars>>

\* the schedule calls the loss closure on the output tensor
CallLossClosure ==
    /\ step_out # None
    /\ loss_out = None
    /\ loss_out' = Some(loss_func(Get(step_out).bound_mask, Get(step_out).output_tensor))
    /\ UNCHANGED <<providerVars, ranksVars, data, mask_call, step_out, pipeVars, gradVars>>

----------------------------------------------------------------------------
(* Pipeline parallelism for T5: the tensors sent between stages.           *)
(* Stage k of the group is the k-th rank of the pipeline group, from 0.    *)
(* A tensor is known by its kind, its microbatch and the number of stages  *)
(* of its tower that have worked on it.                                    *)

NumStages == Get(topo).n
\* --pipeline-model-parallel-split-rank
SplitRank == Get(topo).split
Stages == 0..(NumStages - 1)
Micro == 0..(NumMicro - 1)

\* more than one stage, and both towers present: 0 < split < n
Topologies ==
    { t \in [n : 2..MaxStages, split : 1..(MaxStages - 1)] : t.split < t.n }

Tensor(kind, mb, depth) == [kind |-> kind, mb |-> mb, depth |-> depth]
Grad(kind, mb, val) == [kind |-> kind, mb |-> mb, val |-> val]

\* ranks lower than the split rank execute the encoder block, the others the
\* decoder block
IsEncoderStage(k) == k < SplitRank
IsDecoderStage(k) == k >= SplitRank

\* a misreading: every rank of the decoder section expects two tensors, the
\* rank at the boundary included
RecvCountTwoForEveryDecoder(k) ==
    IF k = 0 THEN 0 ELSE IF k < SplitRank THEN 1 ELSE 2

\* the tensors a rank receives for one microbatch: two in the decoder
\* section, the complete encoder_hidden_state alone at the boundary, the
\* intermediate encoder_hidden_state in the encoder section; the first rank
\* reads its input from the data iterator
RecvCount(k) ==
    IF k = 0 THEN 0
    ELSE IF k > SplitRank THEN 2
    ELSE IF k = SplitRank THEN 1
    ELSE 1

\* a plausible slip: the encoder section already sends a pair downstream
StageOutputEncoderSendsPair(k, m, in) ==
    IF k < SplitRank
    THEN LET d == IF k = 0 THEN 0 ELSE in[1].depth
         IN << Tensor("dec", m, 0), Tensor("enc", m, d + 1) >>
    ELSE LET enc == in[Len(in)]
             d   == IF Len(in) > 1 THEN in[1].depth ELSE 0
         IN << Tensor("dec", m, d + 1), enc >>

\* a plausible slip: a decoder stage runs its own transform over the
\* encoder_hidden_state before sending it on
StageOutputDecoderTouchesEncoder(k, m, in) ==
    IF k < SplitRank
    THEN LET d == IF k = 0 THEN 0 ELSE in[1].depth
         IN << Tensor("enc", m, d + 1) >>
    ELSE LET enc == in[Len(in)]
             d   == IF Len(in) > 1 THEN in[1].depth ELSE 0
         IN << Tensor("dec", m, d + 1), Tensor("enc", enc.mb, enc.depth + 1) >>

\* what stage k produces for microbatch m from its input tensors: in the
\* encoder section one tensor, the encoder_hidden_state one stage further;
\* in the decoder section two, the decoder_hidden_state one stage further
\* and the fully computed encoder_hidden_state as received
StageOutput(k, m, in) ==
    IF k < SplitRank
    THEN LET d == IF k = 0 THEN 0 ELSE in[1].depth
         IN << Tensor("enc", m, d + 1) >>
    ELSE LET enc == in[Len(in)]
             d   == IF Len(in) > 1 THEN in[1].depth ELSE 0
         IN << Tensor("dec", m, d + 1), enc >>

\* point-to-point transfer between neighbouring stages: tensors arrive in
\* the order sent
ChanPut(chan, bundle) == chan \o bundle

\* a plausible slip: the receiver takes the newest tensors first
ChanTakeNewest(chan, c) == SubSeq(chan, Len(chan) - c + 1, Len(chan))

ChanTake(chan, c) == SubSeq(chan, 1, c)
ChanRest(chan, c) == SubSeq(chan, c + 1, Len(chan))

\* the gradient of the loss of microbatch m with respect to the
\* encoder_hidden_state through the layers of decoder stage k alone
PartialGrad(k, m) == 1 + k + NumStages * m

EmptyLog ==
    [ rcvd |-> <<>>, sent |-> <<>>, began |-> FALSE, done |-> FALSE,
      bwd |-> FALSE, enc_grad |-> 0, grad_sent |-> <<>> ]

\* stage k starts the forward of a microbatch: the first stage reads the
\* next one from its iterator, every other stage blocks until the tensors
\* it expects have arrived from stage k - 1
BeginForward(k) ==
    /\ cur[k] = None
    /\ IF k = 0
       THEN /\ nextmb < NumMicro
            /\ nextmb' = nextmb + 1
            /\ inbox' = [inbox EXCEPT ![k] = <<>>]
            /\ cur' = [cur EXCEPT ![k] = Some(nextmb)]
            /\ stage_log' = [stage_log EXCEPT ![k][nextmb].began = TRUE]
            /\ order' = [order EXCEPT ![k].recv = Append(@, nextmb)]
            /\ UNCHANGED fwd_chan
       ELSE /\ Len(fwd_chan[k - 1]) >= RecvCount(k)
            /\ LET in == ChanTake(fwd_chan[k - 1], RecvCount(k))
                   m  == in[1].mb
               IN /\ inbox' = [inbox EXCEPT ![k] = in]
                  /\ cur' = [cur EXCEPT ![k] = Some(m)]
                  /\ stage_log' = [stage_log EXCEPT ![k][m].began = TRUE,
                                                    ![k][m].rcvd = in]
                  /\ order' = [order EXCEPT ![k].recv = Append(@, m)]
            /\ fwd_chan' = [fwd_chan EXCEPT ![k - 1] = ChanRest(@, RecvCount(k))]
            /\ UNCHANGED nextmb
    /\ UNCHANGED <<topo, bwd_chan>>

\* stage k completes the forward in progress and, unless it is the last
\* stage, sends its output tensors to stage k + 1
FinishForward(k) ==
    /\ cur[k] # None
    /\ LET m   == Get(cur[k])
           out == StageOutput(k, m, inbox[k])
       IN /\ stage_log' = [stage_log EXCEPT
                             ![k][m].done = TRUE,
                             ![k][m].sent = IF k < NumStages - 1 THEN out ELSE <<>>]
          /\ fwd_chan' = IF k < NumStages - 1
                         THEN [fwd_chan EXCEPT ![k] = ChanPut(@, out)]
                         ELSE fwd_chan
          /\ order' = [order EXCEPT ![k].send = Append(@, m)]
    /\ cur' = [cur EXCEPT ![k] = None]
    /\ inbox' = [inbox EXCEPT ![k] = <<>>]
    /\ UNCHANGED <<topo, nextmb, bwd_chan>>

\* the microbatches stage k has finished forward and not yet run backward,
\* oldest first
PendingBackward(k) ==
    SelectSeq(order[k].send, LAMBDA m : ~stage_log[k][m].bwd)

\* backward_step at stage k for the oldest pending microbatch: the last
\* stage starts from the loss, every other stage blocks until the gradients
\* of the tensors it sent have come back. In the decoder section the
\* gradient of the encoder_hidden_state that came back is added to the
\* stage's own (the skip connection), in a buffer of its own; the gradients
\* of the stage's input tensors go to stage k - 1.
BackwardStep(k) ==
    /\ cur[k] = None
    /\ PendingBackward(k) # <<>>
    /\ LET m    == Head(PendingBackward(k))
           nout == Len(stage_log[k][m].sent)
           in   == stage_log[k][m].rcvd
       IN /\ k < NumStages - 1 => Len(bwd_chan[k]) >= nout
          /\ LET out_grad == IF k < NumStages - 1
                             THEN ChanTake(bwd_chan[k], nout) ELSE <<>>
                 own      == PartialGrad(k, m)
                 enc_grad == IF IsDecoderStage(k)
                             THEN IF Len(out_grad) > 1
                                  THEN own + out_grad[2].val
                                  ELSE own
                             ELSE out_grad[1].val
                 in_grad  == IF Len(in) = 0 THEN <<>>
                             ELSE IF Len(in) = 1 THEN << Grad("enc", m, enc_grad) >>
                             ELSE << Grad("dec", m, 1), Grad("enc", m, enc_grad) >>
             IN /\ stage_log' = [stage_log EXCEPT ![k][m].bwd = TRUE,
                                                  ![k][m].enc_grad = enc_grad,
                                                  ![k][m].grad_sent = in_grad]
                /\ bwd_chan' =
                     [ j \in DOMAIN bwd_chan |->
                         IF j = k /\ k < NumStages - 1 THEN ChanRest(bwd_chan[j], nout)
                         ELSE IF j = k - 1 THEN ChanPut(bwd_chan[j], in_grad)
                         ELSE bwd_chan[j] ]
    /\ UNCHANGED <<topo, nextmb, cur, inbox, fwd_chan, order>>

ForwardBegins ==
    /\ topo # None
    /\ \E k \in Stages : BeginForward(k)
    /\ UNCHANGED <<providerVars, ranksVars, batchVars, gradVars>>

ForwardFinishes ==
    /\ topo # None
    /\ \E k \in Stages : FinishForward(k)
    /\ UNCHANGED <<providerVars, ranksVars, batchVars, gradVars>>

BackwardRuns ==
    /\ topo # None
    /\ \E k \in Stages : BackwardStep(k)
    /\ UNCHANGED <<providerVars, ranksVars, batchVars, gradVars>>

----------------------------------------------------------------------------
(* The encoder_hidden_state gradient across the skip connections: every    *)
(* decoder stage that consumed the encoder_hidden_state reports a partial  *)
(* gradient, and the sum goes back into the encoder range. The backward    *)
(* micro-steps of two microbatches interleave freely.                      *)

GradVals == {-1, 2}
GradMicro == {0, 1}

\* the partial gradient of decoder stage k for microbatch m
PartialOf(k, m) == partial[k] + m

\* a plausible slip: the incoming gradient replaces the buffer
AccumulateOverwrites(acc, g) == g

\* the incoming gradient is added to the buffer
Accumulate(acc, g) == acc + g

\* decoder stage k reports its partial gradient for microbatch m
ReportPartial(k, m) ==
    /\ k \notin Range(reported[m])
    /\ grad_back[m] = None
    /\ grad_acc' = [grad_acc EXCEPT ![m] = Accumulate(@, PartialOf(k, m))]
    /\ reported' = [reported EXCEPT ![m] = Append(@, k)]
    /\ UNCHANGED <<partial, grad_back>>

\* once every decoder stage has reported, the sum is sent further backward
SendGradBack(m) ==
    /\ Range(reported[m]) = DOMAIN partial
    /\ grad_back[m] = None
    /\ grad_back' = [grad_back EXCEPT ![m] = Some(grad_acc[m])]
    /\ UNCHANGED <<partial, reported, grad_acc>>

PartialReported ==
    /\ partial # None
    /\ \E k \in DOMAIN partial, m \in GradMicro : ReportPartial(k, m)
    /\ UNCHANGED <<providerVars, ranksVars, batchVars, pipeVars>>

GradSentBack ==
    /\ partial # None
    /\ \E m \in GradMicro : SendGradBack(m)
    /\ UNCHANGED <<providerVars, ranksVars, batchVars, pipeVars>>

----------------------------------------------------------------------------
(* Specifications                                                          *)

InitProvider ==
    /\ args \in { Some(a) : a \in ArgsSpace }
    /\ provided = None
    /\ pp_ranks = None /\ emb_ranks = None /\ pos_ranks = None
    /\ data = None /\ mask_call = None /\ step_out = None /\ loss_out = None
    /\ topo = None /\ nextmb = 0 /\ cur = None /\ inbox = None
    /\ fwd_chan = None /\ bwd_chan = None /\ stage_log = None /\ order = None
    /\ partial = None /\ reported = None /\ grad_acc = None /\ grad_back = None

SpecProvider == InitProvider /\ [][CallModelProvider]_vars

InitRanks ==
    /\ pp_ranks \in PipelineGroups
    /\ emb_ranks = None /\ pos_ranks = None
    /\ args = None /\ provided = None
    /\ data = None /\ mask_call = None /\ step_out = None /\ loss_out = None
    /\ topo = None /\ nextmb = 0 /\ cur = None /\ inbox = None
    /\ fwd_chan = None /\ bwd_chan = None /\ stage_log = None /\ order = None
    /\ partial = None /\ reported = None /\ grad_acc = None /\ grad_back = None

NextRanks == CallEmbeddingRanks \/ CallPositionEmbeddingRanks

SpecRanks == InitRanks /\ [][NextRanks]_vars

\* forward_step under either backend, pipeline size 1
BatchArgs ==
    { a \in ArgsSpace : /\ ~a.use_legacy_models
                        /\ a.pipeline_model_parallel_size = 1
                        /\ a.num_layers = 1 /\ a.encoder_num_layers = 1 }

InitBatch ==
    /\ args \in { Some(a) : a \in BatchArgs }
    /\ data \in { Some(d) : d \in DataRecords }
    /\ mask_call = None /\ step_out = None /\ loss_out = None
    /\ provided = None
    /\ pp_ranks = None /\ emb_ranks = None /\ pos_ranks = None
    /\ topo = None /\ nextmb = 0 /\ cur = None /\ inbox = None
    /\ fwd_chan = None /\ bwd_chan = None /\ stage_log = None /\ order = None
    /\ partial = None /\ reported = None /\ grad_acc = None /\ grad_back = None

NextBatch == ForwardStep \/ CallLossClosure

SpecBatch == InitBatch /\ [][NextBatch]_vars

InitPipeline ==
    /\ topo \in { Some(t) : t \in Topologies }
    /\ nextmb = 0
    /\ cur = [k \in Stages |-> None]
    /\ inbox = [k \in Stages |-> <<>>]
    /\ fwd_chan = [k \in Stages |-> <<>>]
    /\ bwd_chan = [k \in Stages |-> <<>>]
    /\ stage_log = [k \in Stages |-> [m \in Micro |-> EmptyLog]]
    /\ order = [k \in Stages |-> [recv |-> <<>>, send |-> <<>>]]
    /\ args = None /\ provided = None
    /\ pp_ranks = None /\ emb_ranks = None /\ pos_ranks = None
    /\ data = None /\ mask_call = None /\ step_out = None /\ loss_out = None
    /\ partial = None /\ reported = None /\ grad_acc = None /\ grad_back = None

NextPipeline == ForwardBegins \/ ForwardFinishes \/ BackwardRuns

SpecPipeline == InitPipeline /\ [][NextPipeline]_vars

InitGrad ==
    /\ partial \in UNION { [1..d -> GradVals] : d \in 1..MaxDecoders }
    /\ reported = [m \in GradMicro |-> <<>>]
    /\ grad_acc = [m \in GradMicro |-> 0]
    /\ grad_back = [m \in GradMicro |-> None]
    /\ args = None /\ provided = None
    /\ pp_ranks = None /\ emb_ranks = None /\ pos_ranks = None
    /\ data = None /\ mask_call = None /\ step_out = None /\ loss_out = None
    /\ topo = None /\ nextmb = 0 /\ cur = None /\ inbox = None
    /\ fwd_chan = None /\ bwd_chan = None /\ stage_log = None /\ order = None

NextGrad == PartialReported \/ GradSentBack

SpecGrad == InitGrad /\ [][NextGrad]_vars

----------------------------------------------------------------------------
(* Properties of model_provider (SpecProvider)                             *)

\* C1, as stated: under every configuration whose pipeline-parallel size
\* exceeds 1, legacy or not, on either backend, model_provider raises and no
\* model is returned.
C1_EveryPathRejectsPipeline ==
    (provided # None /\ Get(args).pipeline_model_parallel_size > 1)
        => /\ Get(provided).status = "raised"
           /\ Get(provided).model = None

\* C1, amended: under every non-legacy configuration whose pipeline-parallel
\* size exceeds 1, on either backend, model_provider raises ValueError and no
\* model is built; under use_legacy_models the size is not tested and the
\* legacy model is built and returned whatever the size.
C1_NonLegacyRejectsPipeline ==
    provided # None =>
        LET a == Get(args)
            r == Get(provided)
        IN /\ (~a.use_legacy_models /\ a.pipeline_model_parallel_size > 1)
                => (r.status = "raised" /\ r.error = "ValueError" /\ r.model = None)
           /\ a.use_legacy_models
                => (r.status = "returned" /\ Get(r.model).class = "legacy.T5Model")

\* a non-legacy call with more than one stage has raised
C1_Witness ==
    /\ provided # None
    /\ ~Get(args).use_legacy_models
    /\ Get(args).pipeline_model_parallel_size > 1
    /\ Get(args).transformer_impl = "transformer_engine"
    /\ Get(provided).status = "raised"

----------------------------------------------------------------------------
(* Properties of the rank functions (SpecRanks)                            *)

NoDuplicates(s) == \A i, j \in DOMAIN s : i # j => s[i] # s[j]

\* C2: for a non-empty group of unique ranks, t5_embedding_ranks returns
\* exactly the first rank when the group has one rank, and exactly the first
\* and the last otherwise, with no duplicate and no interior rank.
C2_EmbeddingRanks ==
    emb_ranks # None =>
        LET g == pp_ranks
            r == Get(emb_ranks)
        IN /\ Range(r) = (IF Len(g) = 1 THEN {g[1]} ELSE {g[1], g[Len(g)]})
           /\ NoDuplicates(r)
           /\ Len(r) = (IF Len(g) = 1 THEN 1 ELSE 2)
           /\ \A i \in 2..(Len(g) - 1) : g[i] \notin Range(r)

\* the function was applied to a group with an interior rank
C2_Witness ==
    /\ emb_ranks # None
    /\ Len(pp_ranks) >= 3
    /\ Get(emb_ranks) = <<pp_ranks[1], pp_ranks[Len(pp_ranks)]>>

----------------------------------------------------------------------------
(* Properties of get_batch and forward_step (SpecBatch)                    *)

AllZero(t) == \A i \in DOMAIN t : t[i] = 0

DecValid(i) == 2 * Get(data).dec_mask[i] < 1
EncValid(i) == 2 * Get(data).enc_mask[i] < 1

C9_PaddingToBoolean ==
    (mask_call # None /\ step_out # None) =>
        LET c == Get(mask_call)
            d == Get(data)
            o == Get(step_out)
        IN /\ DOMAIN c.enc_mask = 1..EncLen
           /\ DOMAIN c.dec_mask = 1..DecLen
           /\ \A i \in 1..EncLen : c.enc_mask[i] <=> EncValid(i)
           /\ \A i \in 1..DecLen : c.dec_mask[i] <=> DecValid(i)
           /\ c.tokens_enc = d.text_enc /\ c.tokens_dec = d.text_dec
           /\ o.model_call.tokens_enc = d.text_enc
           /\ o.model_call.tokens_dec = d.text_dec
           /\ o.model_call.lm_labels = d.labels
           /\ o.bound_mask = d.loss_mask

\* a batch with valid and padded positions on both sides went through
C9_Witness ==
    /\ mask_call # None
    /\ step_out # None
    /\ \E i, j \in 1..EncLen : EncValid(i) /\ ~EncValid(j)
    /\ \E i, j \in 1..DecLen : DecValid(i) /\ ~DecValid(j)
    /\ \E i \in 1..DecLen : Get(data).loss_mask[i] # 0

----------------------------------------------------------------------------
(* Properties of the inter-stage tensor contract (SpecPipeline)            *)

Log(k, m) == stage_log[k][m]
LastStage == NumStages - 1

\* C3, as stated: per microbatch every encoder stage forwards exactly one
\* tensor, and every decoder stage, the first one included, receives exactly
\* two tensors and forwards exactly two.
C3_EveryDecoderReceivesTwo ==
    topo # None =>
        \A k \in Stages, m \in Micro :
            /\ (IsEncoderStage(k) /\ Log(k, m).done) => Len(Log(k, m).sent) = 1
            /\ (IsDecoderStage(k) /\ Log(k, m).began) => Len(Log(k, m).rcvd) = 2
            /\ (IsDecoderStage(k) /\ Log(k, m).done) => Len(Log(k, m).sent) = 2

\* C3, amended: per microbatch every encoder stage forwards exactly one
\* tensor; the first decoder stage (index SplitRank) receives exactly one
\* tensor, the completed encoder_hidden_state, and every later decoder stage
\* receives exactly two; every decoder stage that has a successor forwards
\* exactly two, and the last stage sends nothing downstream.
C3_TensorCounts ==
    topo # None =>
        \A k \in Stages, m \in Micro :
            /\ (IsEncoderStage(k) /\ Log(k, m).done) => Len(Log(k, m).sent) = 1
            /\ (k = SplitRank /\ Log(k, m).began) =>
                   /\ Len(Log(k, m).rcvd) = 1
                   /\ Log(k, m).rcvd[1] = Tensor("enc", m, SplitRank)
            /\ (k > SplitRank /\ Log(k, m).began) => Len(Log(k, m).rcvd) = 2
            /\ (IsDecoderStage(k) /\ k < LastStage /\ Log(k, m).done) =>
                   Len(Log(k, m).sent) = 2
            /\ (k = LastStage /\ Log(k, m).done) => Len(Log(k, m).sent) = 0

\* the group [0,1,2,3] with SplitRank 2 has run a whole forward pass
C3_Witness ==
    /\ topo # None
    /\ NumStages = 4 /\ SplitRank = 2
    /\ \A k \in Stages : Log(k, 0).done
    /\ Len(Log(0, 0).sent) = 1 /\ Len(Log(1, 0).sent) = 1
    /\ Len(Log(2, 0).rcvd) = 1 /\ Len(Log(2, 0).sent) = 2
    /\ Len(Log(3, 0).rcvd) = 2

IsPrefix(a, b) == Len(a) <= Len(b) /\ SubSeq(b, 1, Len(a)) = a

\* C5: stage k+1 never begins the forward of a microbatch before stage k
\* has completed it, and at every stage boundary the microbatches are
\* received in the order in which they were sent.
C5_HappensBeforeAndFifo ==
    topo # None =>
        \A k \in Stages : k < LastStage =>
            /\ \A m \in Micro : Log(k + 1, m).began => Log(k, m).done
            /\ IsPrefix(order[k + 1].recv, order[k].send)
            /\ NoDuplicates(order[k + 1].recv)

\* two microbatches are in flight at different stages, and a stage has
\* received both across its boundary
C5_Witness ==
    /\ topo # None
    /\ \E k1, k2 \in Stages :
         /\ k1 < k2
         /\ cur[k1] # None /\ cur[k2] # None
         /\ Get(cur[k1]) # Get(cur[k2])
    /\ \E k \in Stages : k > 0 /\ Len(order[k].recv) >= 2

\* C8: the completed encoder_hidden_state the boundary stage produced is
\* what every decoder stage receives and what it sends on, unchanged, and
\* it stays so after the stage's backward step has accumulated gradients.
C8_EncoderStatePassedUnchanged ==
    topo # None =>
        \A k \in Stages, m \in Micro : IsDecoderStage(k) =>
            LET l == Log(k, m) IN
            /\ l.began =>
                 /\ l.rcvd[Len(l.rcvd)] = Log(SplitRank - 1, m).sent[1]
                 /\ l.rcvd[Len(l.rcvd)] = Tensor("enc", m, SplitRank)
            /\ (l.done /\ k < LastStage) => l.sent[2] = l.rcvd[Len(l.rcvd)]
            /\ l.bwd => (l.done /\ l.rcvd[Len(l.rcvd)] = Tensor("enc", m, SplitRank))

\* three decoder stages have passed the state along and run backward
C8_Witness ==
    /\ topo # None
    /\ NumStages = 4 /\ SplitRank = 1
    /\ \A k \in 1..3 : Log(k, 1).bwd
    /\ Log(3, 1).rcvd[2] = Log(0, 1).sent[1]
    /\ Log(1, 1).enc_grad # PartialGrad(1, 1)

\* C10: across every stage boundary the tensors stage k+1 receives for a
\* microbatch are the tensors stage k sent for it, no tensor is left over in
\* between, and a stage with a microbatch outstanding from upstream is never
\* short of a tensor it waits for.
C10_BoundaryCountsAgree ==
    topo # None =>
        \A k \in Stages : k < LastStage =>
            /\ \A m \in Micro : Log(k + 1, m).began =>
                 /\ Len(Log(k + 1, m).rcvd) = Len(Log(k, m).sent)
                 /\ Log(k + 1, m).rcvd = Log(k, m).sent
            /\ order[k + 1].recv = order[k].send => fwd_chan[k] = <<>>
            /\ Len(order[k].send) > Len(order[k + 1].recv) =>
                 Len(fwd_chan[k]) >= RecvCount(k + 1)

\* the boundary between the last encoder stage and the first decoder stage
\* has been crossed, and so has a boundary inside the decoder section
C10_Witness ==
    /\ topo # None
    /\ NumStages >= 3
    /\ SplitRank < LastStage
    /\ Log(SplitRank, 0).began
    /\ Log(SplitRank + 1, 1).began

----------------------------------------------------------------------------
(* Properties of the gradient accumulator (SpecGrad)                       *)

\* the partial gradients of microbatch m, summed in stage order
RECURSIVE SumInStageOrder(_, _)
SumInStageOrder(m, d) ==
    IF d = 0 THEN 0 ELSE SumInStageOrder(m, d - 1) + PartialOf(d, m)

====
